---- MODULE Spec2Model ----
(***************************************************************************)
(* MassyTools, bin/analyte.py: the Analyte entity.                         *)
(*                                                                         *)
(* An Analyte resolves its elemental composition from its name             *)
(* (determine_total_number_of_elements), applies the mass modifiers and    *)
(* the charge carrier (attach_mass_modifiers), computes its isotopic       *)
(* pattern (calculate_analyte_isotopic_pattern) and cuts the window of the *)
(* mass spectrum around its dominant isotope (inherit_data_subset).        *)
(*                                                                         *)
(* Numbers.  Masses, probabilities, epsilon, min_total_contribution and    *)
(* mass_window are floats in the program.  Here the inputs are integers    *)
(* (a fixed-point scale) and the one division of the program, the          *)
(* probability-weighted mean of line 151, is kept exact as a fraction      *)
(* [num, den]; masses are compared by cross-multiplication.  Floating      *)
(* point rounding is not modelled.                                         *)
(*                                                                         *)
(* Strings.  A name is a sequence of one-character strings; a building     *)
(* block key is such a sequence too.                                       *)
(***************************************************************************)
EXTENDS Integers, Sequences, FiniteSets, TLC

VARIABLES
    name,                   \* master.peak['name'] (line 18)
    mass_modifiers,         \* settings.mass_modifiers
    charge_carrier,         \* settings.charge_carrier
    epsilon,                \* settings.epsilon
    min_total_contribution, \* settings.min_total_contribution
    mass_window,            \* settings.mass_window
    spectrum,               \* master.mass_spectrum.data
    combination,            \* the itertools.product of the eight elemental patterns
    composition,            \* mass, number_* and total_number_units of the analyte
    isotopes,               \* self.isotopes
    data_subset,            \* self.data_subset
    intermediate_results,   \* the clusters of the last merge (local of line 139)
    pc,                     \* the last method of the analyte that ran
    err,                    \* the exception that method ended in, or "none"
    calls_left              \* calculate_isotopes calls the caller still makes

vars == <<name, mass_modifiers, charge_carrier, epsilon, min_total_contribution,
          mass_window, spectrum, combination, composition, isotopes, data_subset,
          intermediate_results, pc, err, calls_left>>

settings == <<mass_modifiers, charge_carrier, epsilon, min_total_contribution,
              mass_window>>

inputs == <<name, settings, spectrum, combination>>

(***************************************************************************)
(* Bounds of the model.                                                    *)
(***************************************************************************)
MaxNameLen == 4       \* characters of an analyte name
MaxPoints == 3        \* points of the combination list
MaxShift == 2         \* largest mass shift of a combination point
MaxContribution == 4  \* largest min_total_contribution
MaxSpectrumLen == 3   \* points of a mass spectrum
MaxSpectrumMass == 6  \* largest mass of a spectrum point
MaxWindow == 2        \* largest mass_window
MaxCalls == 2         \* calculate_isotopes calls on one analyte

(***************************************************************************)
(* Helpers.                                                                *)
(***************************************************************************)
Range(s) == {s[i] : i \in 1..Len(s)}

Abs(x) == IF x < 0 THEN -x ELSE x

SeqsUpTo(S, n) == UNION {[1..k -> S] : k \in 0..n}

RECURSIVE SumSeq(_)
SumSeq(s) == IF s = <<>> THEN 0 ELSE Head(s) + SumSeq(Tail(s))

(***************************************************************************)
(* Characters.  str.isalpha is true of a letter; a digit and "-" are not   *)
(* letters, so itertools.groupby puts them in the same run.                *)
(***************************************************************************)
Letters == {"H", "S", "P", "e", "r", "N", "a", "M"}

Digits == {"0", "1", "2", "3", "4", "5", "6", "7", "8", "9"}

NameChars == {"H", "S", "1", "2", "-"}

isalpha(c) == c \in Letters

DigitValue(c) ==
    CASE c = "0" -> 0 [] c = "1" -> 1 [] c = "2" -> 2 [] c = "3" -> 3
      [] c = "4" -> 4 [] c = "5" -> 5 [] c = "6" -> 6 [] c = "7" -> 7
      [] c = "8" -> 8 [] c = "9" -> 9

(***************************************************************************)
(* master.building_blocks: the table of the units, the modifiers and the   *)
(* charge carriers (external data, read only).                             *)
(***************************************************************************)
Hex == <<"H">>
Sia == <<"S">>
Per == <<"P", "e", "r">>
Me == <<"M", "e">>
Na == <<"N", "a">>

Block(m, c, h, n, o, s) ==
    [mass |-> m, carbons |-> c, hydrogens |-> h, nitrogens |-> n,
     oxygens |-> o, sulfurs |-> s]

building_blocks ==
    (Hex :> Block(2, 1, 3, 0, 2, 0)) @@
    (Sia :> Block(3, 2, 4, 1, 3, 1)) @@
    (Per :> Block(1, 1, 2, 1, 1, 1)) @@
    (Me :> Block(1, 1, 1, 0, 1, 0)) @@
    (Na :> Block(1, 0, 0, 0, 0, 0))

(***************************************************************************)
(* calculate_isotopes, lines 34-42: the totals are set to zero.            *)
(***************************************************************************)
ZeroComposition ==
    [mass |-> 0, number_carbons |-> 0, number_hydrogens |-> 0,
     number_nitrogens |-> 0, number_oxygens |-> 0, number_sulfurs |-> 0,
     number_sialic_acids |-> 0, total_number_elements |-> 0,
     total_number_units |-> 0]

(***************************************************************************)
(* itertools.groupby(name, key=str.isalpha): the maximal runs of letters   *)
(* and of non-letters, in order (lines 49-50).                             *)
(***************************************************************************)
RECURSIVE groupby(_, _)
groupby(s, acc) ==
    IF s = <<>> THEN acc
    ELSE IF acc # <<>> /\ isalpha(acc[Len(acc)][1]) = isalpha(Head(s))
         THEN groupby(Tail(s),
                      [acc EXCEPT ![Len(acc)] = Append(@, Head(s))])
         ELSE groupby(Tail(s), Append(acc, <<Head(s)>>))

Units(n) == groupby(n, <<>>)

(***************************************************************************)
(* int(text) of Python on a text of digits and "-": an optional sign and   *)
(* then one or more digits, read in base ten; anything else is a           *)
(* ValueError.                                                             *)
(***************************************************************************)
RECURSIVE DecimalValue(_, _)
DecimalValue(s, acc) ==
    IF s = <<>> THEN acc
    ELSE DecimalValue(Tail(s), 10 * acc + DigitValue(Head(s)))

AllDigits(s) == s # <<>> /\ \A i \in 1..Len(s) : s[i] \in Digits

\* A parser that knows no sign.
IntParsesUnsigned(s) == AllDigits(s)

IntParses(s) ==
    \/ AllDigits(s)
    \/ s # <<>> /\ Head(s) = "-" /\ AllDigits(Tail(s))

int(s) ==
    IF Head(s) = "-" THEN 0 - DecimalValue(Tail(s), 0)
    ELSE DecimalValue(s, 0)

(***************************************************************************)
(* One matched unit of determine_total_number_of_elements (lines 54-68).   *)
(***************************************************************************)
\* A unit counted once, whatever the digits after it say.
AddUnitOnce(comp, unit, count) ==
    LET b == building_blocks[unit] IN
    [comp EXCEPT
        !.mass = @ + b.mass,
        !.number_carbons = @ + b.carbons,
        !.number_hydrogens = @ + b.hydrogens,
        !.number_nitrogens = @ + b.nitrogens,
        !.number_oxygens = @ + b.oxygens,
        !.number_sulfurs = @ + b.sulfurs,
        !.total_number_units = @ + 1,
        !.number_sialic_acids = IF unit = Sia THEN @ + 1 ELSE @]

AddUnit(comp, unit, count) ==
    LET b == building_blocks[unit] IN
    [comp EXCEPT
        !.mass = @ + b.mass * count,
        !.number_carbons = @ + b.carbons * count,
        !.number_hydrogens = @ + b.hydrogens * count,
        !.number_nitrogens = @ + b.nitrogens * count,
        !.number_oxygens = @ + b.oxygens * count,
        !.number_sulfurs = @ + b.sulfurs * count,
        !.total_number_units = @ + count,
        !.number_sialic_acids = IF unit = Sia THEN @ + count ELSE @]

(***************************************************************************)
(* determine_total_number_of_elements (lines 48-68), from unit `index`.    *)
(* units[index+1] of a matched last unit is an IndexError, int() of a run  *)
(* that is no integer a ValueError; both are raised by line 54-55, before  *)
(* the unit has changed a total, and leave the totals of the units before. *)
(***************************************************************************)
RECURSIVE DetermineFrom(_, _, _)
DetermineFrom(units, index, comp) ==
    IF index > Len(units) THEN [comp |-> comp, err |-> "none"]
    ELSE IF units[index] \notin DOMAIN building_blocks
         THEN DetermineFrom(units, index + 1, comp)
    ELSE IF index + 1 > Len(units)
         THEN [comp |-> comp, err |-> "IndexError"]
    ELSE IF ~IntParses(units[index + 1])
         THEN [comp |-> comp, err |-> "ValueError"]
    ELSE DetermineFrom(units, index + 1,
                       AddUnit(comp, units[index], int(units[index + 1])))

determine_total_number_of_elements(n, comp) ==
    DetermineFrom(Units(n), 1, comp)

(***************************************************************************)
(* attach_mass_modifiers (lines 70-102).                                   *)
(***************************************************************************)
total_modifiers(mods, carrier) == Append(mods, carrier)

\* Lines 77-87: one modifier that is not "Per" is added once, unscaled.
AddModifier(comp, modifier) ==
    LET b == building_blocks[modifier] IN
    [comp EXCEPT
        !.mass = @ + b.mass,
        !.number_carbons = @ + b.carbons,
        !.number_hydrogens = @ + b.hydrogens,
        !.number_nitrogens = @ + b.nitrogens,
        !.number_oxygens = @ + b.oxygens,
        !.number_sulfurs = @ + b.sulfurs]

\* Lines 75-87: the first loop, over every modifier in order.
RECURSIVE IndependentPass(_, _)
IndependentPass(comp, mods) ==
    IF mods = <<>> THEN comp
    ELSE IndependentPass(IF Head(mods) # Per THEN AddModifier(comp, Head(mods))
                         ELSE comp,
                         Tail(mods))

\* Lines 93-102: one "Per".  Line 94 reads self.total_number_of_units, and
\* the attributes of the analyte are the fields of the composition: an
\* attribute that no line assigns is an AttributeError.
Permethylate(comp) ==
    IF "total_number_of_units" \notin DOMAIN comp
    THEN [comp |-> comp, err |-> "AttributeError"]
    ELSE LET number_sites ==
                 comp.number_oxygens - (comp.total_number_of_units * 2 - 2)
                 - 1 - (1 * comp.number_sialic_acids)
             b == building_blocks[Per]
         IN  [comp |-> [comp EXCEPT
                           !.number_carbons = @ + b.carbons * number_sites,
                           !.number_hydrogens = @ + b.hydrogens * number_sites * 2,
                           !.mass = @ + b.mass * number_sites],
              err |-> "none"]

\* Lines 91-102: the second loop; an exception ends it.
RECURSIVE DependentPass(_, _)
DependentPass(comp, mods) ==
    IF mods = <<>> THEN [comp |-> comp, err |-> "none"]
    ELSE IF Head(mods) # Per THEN DependentPass(comp, Tail(mods))
    ELSE LET r == Permethylate(comp) IN
         IF r.err # "none" THEN r ELSE DependentPass(r.comp, Tail(mods))

attach_mass_modifiers(comp, mods, carrier) ==
    DependentPass(IndependentPass(comp, total_modifiers(mods, carrier)),
                  total_modifiers(mods, carrier))

(***************************************************************************)
(* calculate_analyte_isotopic_pattern (lines 104-170).                     *)
(*                                                                         *)
(* Lines 106-136: `combination` stands for the Cartesian product of the   *)
(* eight elemental patterns, a list of (mass shift, probability) in the    *)
(* product's order; totals adds the analyte's mass to every shift.         *)
(***************************************************************************)
Totals(mass, comb) ==
    [i \in 1..Len(comb) |-> <<mass + comb[i][1], comb[i][2]>>]

\* Line 146: the points of totals whose flag in newdata is still True, in
\* the order of totals (one entry per occurrence).
RECURSIVE Unconsumed(_, _)
Unconsumed(totals, fresh) ==
    IF totals = <<>> THEN <<>>
    ELSE IF Head(totals) \in fresh
         THEN <<Head(totals)>> \o Unconsumed(Tail(totals), fresh)
         ELSE Unconsumed(Tail(totals), fresh)

\* Lines 146-150: the points the seed (k, v) absorbs.
RECURSIVE Absorbed(_, _, _)
Absorbed(k, candidates, eps) ==
    IF candidates = <<>> THEN <<>>
    ELSE IF Abs(k - Head(candidates)[1]) < eps
         THEN <<Head(candidates)>> \o Absorbed(k, Tail(candidates), eps)
         ELSE Absorbed(k, Tail(candidates), eps)

RECURSIVE SumKeys(_)
SumKeys(points) ==
    IF points = <<>> THEN 0
    ELSE Head(points)[1] * Head(points)[2] + SumKeys(Tail(points))

RECURSIVE SumValues(_)
SumValues(points) ==
    IF points = <<>> THEN 0 ELSE Head(points)[2] + SumValues(Tail(points))

\* Line 151: (sum(keys)/sum(values), sum(values)), the quotient kept exact.
Cluster(members) ==
    [exact_mass |-> [num |-> SumKeys(members), den |-> SumValues(members)],
     fraction |-> SumValues(members)]

\* Lines 139-151.  newdata is a dict keyed by the point (k, v) itself:
\* `fresh` is the set of the keys whose value is True.
RECURSIVE MergeFrom(_, _, _, _, _)
MergeFrom(totals, index, fresh, eps, acc) ==
    IF index > Len(totals) THEN acc
    ELSE IF totals[index] \notin fresh
         THEN MergeFrom(totals, index + 1, fresh, eps, acc)
    ELSE LET seed == totals[index]
             taken == Absorbed(seed[1],
                               Unconsumed(totals, fresh \ {seed}), eps)
         IN  MergeFrom(totals, index + 1,
                       (fresh \ {seed}) \ Range(taken), eps,
                       Append(acc, Cluster(<<seed>> \o taken)))

Merge(totals, eps) == MergeFrom(totals, 1, Range(totals), eps, <<>>)

\* Lines 154-155: sorted(..., key=itemgetter(1), reverse=True).  Python's
\* sort is stable, also with reverse=True: equal fractions keep their order.
RECURSIVE InsertByFraction(_, _)
InsertByFraction(sorted, c) ==
    IF sorted = <<>> THEN <<c>>
    ELSE IF Head(sorted).fraction >= c.fraction
         THEN <<Head(sorted)>> \o InsertByFraction(Tail(sorted), c)
         ELSE <<c>> \o sorted

RECURSIVE SortByFractionDescending(_, _)
SortByFractionDescending(s, acc) ==
    IF s = <<>> THEN acc
    ELSE SortByFractionDescending(Tail(s), InsertByFraction(acc, Head(s)))

\* a.exact_mass <= b.exact_mass, the denominators being positive.
MassLeq(a, b) ==
    a.exact_mass.num * b.exact_mass.den <= b.exact_mass.num * a.exact_mass.den

MassLess(a, b) ==
    a.exact_mass.num * b.exact_mass.den < b.exact_mass.num * a.exact_mass.den

\* Line 163: sorted(results, key=itemgetter(0)), stable.
RECURSIVE InsertByMass(_, _)
InsertByMass(sorted, c) ==
    IF sorted = <<>> THEN <<c>>
    ELSE IF MassLeq(Head(sorted), c)
         THEN <<Head(sorted)>> \o InsertByMass(Tail(sorted), c)
         ELSE <<c>> \o sorted

RECURSIVE SortByMass(_, _)
SortByMass(s, acc) ==
    IF s = <<>> THEN acc
    ELSE SortByMass(Tail(s), InsertByMass(acc, Head(s)))

\* Lines 156-162: the clusters are appended in order, the loop breaks after
\* the one with which the running sum exceeds min_total_contribution.
RECURSIVE Truncate(_, _, _, _)
Truncate(ranked, min_total, results, running) ==
    IF ranked = <<>> THEN results
    ELSE IF running + Head(ranked).fraction > min_total
         THEN Append(results, Head(ranked))
         ELSE Truncate(Tail(ranked), min_total, Append(results, Head(ranked)),
                       running + Head(ranked).fraction)

Ranked(clusters) == SortByFractionDescending(clusters, <<>>)

\* A truncation that stops as soon as the running sum reaches the threshold.
RECURSIVE TruncateAtLeast(_, _, _, _)
TruncateAtLeast(ranked, min_total, results, running) ==
    IF ranked = <<>> THEN results
    ELSE IF running + Head(ranked).fraction >= min_total
         THEN Append(results, Head(ranked))
         ELSE TruncateAtLeast(Tail(ranked), min_total,
                              Append(results, Head(ranked)),
                              running + Head(ranked).fraction)

RetainedAtLeast(clusters, min_total) ==
    TruncateAtLeast(Ranked(clusters), min_total, <<>>, 0)

Retained(clusters, min_total) == Truncate(Ranked(clusters), min_total, <<>>, 0)

\* Lines 163-170: the retained clusters, by mass, are appended to isotopes.
\* The retained clusters appended as ranked, the sort by mass left out.
AppendIsotopesUnsorted(old, results) == old \o results

AppendIsotopes(old, results) == old \o SortByMass(results, <<>>)

(***************************************************************************)
(* inherit_data_subset (lines 22-31).                                      *)
(***************************************************************************)
\* Lines 24-27: the exact mass of the last isotope with the greatest fraction.
RECURSIVE MaxFraction(_)
MaxFraction(iso) ==
    IF Len(iso) = 1 THEN iso[1].fraction
    ELSE LET m == MaxFraction(Tail(iso)) IN
         IF iso[1].fraction > m THEN iso[1].fraction ELSE m

RECURSIVE CenterFrom(_, _, _, _)
CenterFrom(iso, index, max_fraction, center) ==
    IF index > Len(iso) THEN center
    ELSE CenterFrom(iso, index + 1, max_fraction,
                    IF iso[index].fraction = max_fraction
                    THEN iso[index].exact_mass ELSE center)

center_mass(iso) == CenterFrom(iso, 1, MaxFraction(iso), iso[1].exact_mass)

\* bisect.bisect_left(a, x) for x = (num + offset*den)/den: the binary
\* search of the standard library, a[mid] < x moving lo up.
RECURSIVE BisectLeftLoop(_, _, _, _, _)
BisectLeftLoop(a, c, offset, lo, hi) ==
    IF lo >= hi THEN lo
    ELSE LET mid == (lo + hi) \div 2 IN
         IF a[mid + 1] * c.den < c.num + offset * c.den
         THEN BisectLeftLoop(a, c, offset, mid + 1, hi)
         ELSE BisectLeftLoop(a, c, offset, lo, mid)

bisect_left(a, c, offset) == BisectLeftLoop(a, c, offset, 0, Len(a))

\* bisect.bisect_right(a, x): x < a[mid] moving hi down.
RECURSIVE BisectRightLoop(_, _, _, _, _)
BisectRightLoop(a, c, offset, lo, hi) ==
    IF lo >= hi THEN lo
    ELSE LET mid == (lo + hi) \div 2 IN
         IF c.num + offset * c.den < a[mid + 1] * c.den
         THEN BisectRightLoop(a, c, offset, lo, mid)
         ELSE BisectRightLoop(a, c, offset, mid + 1, hi)

\* The right border searched like the left one.
bisect_right_as_left(a, c, offset) == BisectLeftLoop(a, c, offset, 0, Len(a))

bisect_right(a, c, offset) == BisectRightLoop(a, c, offset, 0, Len(a))

x_data(data) == [i \in 1..Len(data) |-> data[i][1]]

\* Lines 30-31: data[left_border:right_border].
Slice(data, left_border, right_border) ==
    SubSeq(data, left_border + 1, right_border)

NoSubset == [none |-> TRUE, data |-> <<>>]

SubsetOf(data) == [none |-> FALSE, data |-> data]

(***************************************************************************)
(* The inputs the model draws.                                             *)
(***************************************************************************)
Names == SeqsUpTo(NameChars, MaxNameLen)

ModifierLists == {<<>>, <<Me>>, <<Per>>, <<Me, Per>>, <<Per, Me>>}

Probabilities == {1, 2}

Points == (0..MaxShift) \X Probabilities

Combinations == SeqsUpTo(Points, MaxPoints) \ {<<>>}

SomeCombinations ==
    { <<<<0, 1>>>>,
      <<<<0, 2>>, <<1, 1>>>>,
      <<<<0, 1>>, <<1, 2>>>>,
      <<<<0, 1>>, <<2, 1>>>>,
      <<<<1, 1>>, <<0, 1>>, <<2, 2>>>> }

Intensity(m) == 10 * m + 1

\* A mass spectrum is strictly ascending by mass.
Spectra ==
    { s \in SeqsUpTo((0..MaxSpectrumMass) \X {0}, MaxSpectrumLen) :
        \A i \in 1..Len(s) - 1 : s[i][1] < s[i + 1][1] }

WithIntensity(s) == [i \in 1..Len(s) |-> <<s[i][1], Intensity(s[i][1])>>]

(***************************************************************************)
(* Analyte.__init__ (lines 12-20): no total is an attribute yet,           *)
(* data_subset is None and isotopes is the empty list.                     *)
(***************************************************************************)
Fresh ==
    /\ composition = [a \in {} |-> 0]
    /\ isotopes = <<>>
    /\ data_subset = NoSubset
    /\ intermediate_results = <<>>
    /\ pc = "new"
    /\ err = "none"

InitResolve ==
    /\ name \in Names
    /\ mass_modifiers \in ModifierLists
    /\ charge_carrier = Na
    /\ epsilon = 1
    /\ min_total_contribution = 2
    /\ mass_window = 1
    /\ spectrum = WithIntensity(<<<<3, 0>>, <<4, 0>>>>)
    /\ combination = <<<<0, 2>>, <<1, 1>>>>
    /\ calls_left = 1
    /\ Fresh

InitPattern ==
    /\ name = <<"H", "1">>
    /\ mass_modifiers = <<>>
    /\ charge_carrier = Na
    /\ epsilon \in -1..MaxShift + 1
    /\ min_total_contribution \in 1..MaxContribution
    /\ mass_window = 1
    /\ spectrum = WithIntensity(<<<<3, 0>>, <<4, 0>>>>)
    /\ combination \in Combinations
    /\ calls_left = 1
    /\ Fresh

InitAnalyte ==
    /\ name = <<"H", "1">>
    /\ mass_modifiers = <<>>
    /\ charge_carrier = Na
    /\ epsilon \in {0, 2}
    /\ min_total_contribution = MaxContribution
    /\ mass_window \in 0..MaxWindow
    /\ spectrum \in {WithIntensity(s) : s \in Spectra}
    /\ combination \in SomeCombinations
    /\ calls_left = MaxCalls
    /\ Fresh

(***************************************************************************)
(* The methods.  calculate_isotopes runs its three calls in order; an      *)
(* exception of one of them ends it and leaves the analyte as it is.       *)
(***************************************************************************)
Idle == pc \in {"new", "pattern", "inherit"} \/ err # "none"

\* calculate_isotopes, lines 34-42.
CalculateIsotopes ==
    /\ Idle
    /\ calls_left > 0
    /\ calls_left' = calls_left - 1
    /\ composition' = ZeroComposition
    /\ pc' = "calculate_isotopes"
    /\ err' = "none"
    /\ UNCHANGED <<inputs, isotopes, data_subset, intermediate_results>>

\* Line 44.
DetermineTotalNumberOfElements ==
    /\ pc = "calculate_isotopes"
    /\ LET r == determine_total_number_of_elements(name, composition) IN
       /\ composition' = r.comp
       /\ err' = r.err
    /\ pc' = "determine"
    /\ UNCHANGED <<inputs, isotopes, data_subset, intermediate_results,
                   calls_left>>

\* Line 45.
AttachMassModifiers ==
    /\ pc = "determine"
    /\ err = "none"
    /\ LET r == attach_mass_modifiers(composition, mass_modifiers,
                                      charge_carrier) IN
       /\ composition' = r.comp
       /\ err' = r.err
    /\ pc' = "attach"
    /\ UNCHANGED <<inputs, isotopes, data_subset, intermediate_results,
                   calls_left>>

\* Line 46.
CalculateAnalyteIsotopicPattern ==
    /\ pc = "attach"
    /\ err = "none"
    /\ intermediate_results' = Merge(Totals(composition.mass, combination),
                                     epsilon)
    /\ isotopes' = AppendIsotopes(isotopes,
                                  Retained(intermediate_results',
                                           min_total_contribution))
    /\ pc' = "pattern"
    /\ UNCHANGED <<inputs, composition, data_subset, err, calls_left>>

\* A windowing that answers a spectrum of no points with an empty subset.
InheritDataSubsetOfNothing ==
    /\ Idle
    /\ pc' = "inherit"
    /\ IF isotopes = <<>>
       THEN /\ err' = "ValueError"
            /\ UNCHANGED data_subset
       ELSE /\ err' = "none"
            /\ LET c == center_mass(isotopes)
                   left_border == bisect_left(x_data(spectrum), c,
                                              0 - mass_window)
                   right_border == bisect_right(x_data(spectrum), c,
                                                mass_window)
               IN  data_subset' = SubsetOf(Slice(spectrum, left_border,
                                                 right_border))
    /\ UNCHANGED <<inputs, composition, isotopes, intermediate_results,
                   calls_left>>

\* inherit_data_subset, lines 22-31.  zip(*data) of no point cannot be
\* unpacked into two names (line 23) and max() of no isotope has no value
\* (line 24): both are a ValueError, raised before data_subset is assigned.
InheritDataSubset ==
    /\ Idle
    /\ pc' = "inherit"
    /\ IF spectrum = <<>> \/ isotopes = <<>>
       THEN /\ err' = "ValueError"
            /\ UNCHANGED data_subset
       ELSE /\ err' = "none"
            /\ LET c == center_mass(isotopes)
                   left_border == bisect_left(x_data(spectrum), c,
                                              0 - mass_window)
                   right_border == bisect_right(x_data(spectrum), c,
                                                mass_window)
               IN  data_subset' = SubsetOf(Slice(spectrum, left_border,
                                                 right_border))
    /\ UNCHANGED <<inputs, composition, isotopes, intermediate_results,
                   calls_left>>

Next ==
    \/ CalculateIsotopes
    \/ DetermineTotalNumberOfElements
    \/ AttachMassModifiers
    \/ CalculateAnalyteIsotopicPattern
    \/ InheritDataSubset

SpecResolve == InitResolve /\ [][Next]_vars

SpecPattern == InitPattern /\ [][Next]_vars

SpecAnalyte == InitAnalyte /\ [][Next]_vars

(***************************************************************************)
(* Vocabulary of the properties, stated on positions of the name and on    *)
(* indices of the sequences rather than by the loops above.                *)
(***************************************************************************)
RECURSIVE Pow10(_)
Pow10(n) == IF n = 0 THEN 1 ELSE 10 * Pow10(n - 1)

RECURSIVE SumOver(_, _)
SumOver(S, f) ==
    IF S = {} THEN 0
    ELSE LET x == CHOOSE y \in S : TRUE IN f[x] + SumOver(S \ {x}, f)

\* <<i, j>>: name[i..j] is a maximal run of letters.
LetterRuns(n) ==
    { r \in (1..Len(n)) \X (1..Len(n)) :
        /\ r[1] <= r[2]
        /\ \A k \in r[1]..r[2] : isalpha(n[k])
        /\ r[1] = 1 \/ ~isalpha(n[r[1] - 1])
        /\ r[2] = Len(n) \/ ~isalpha(n[r[2] + 1]) }

KnownRuns(n) ==
    { r \in LetterRuns(n) : SubSeq(n, r[1], r[2]) \in DOMAIN building_blocks }

\* The last position of the run of non-letters that starts after position j
\* (j itself when a letter, or nothing, follows).
FollowEnd(n, j) ==
    CHOOSE k \in j..Len(n) :
        /\ \A p \in j + 1..k : ~isalpha(n[p])
        /\ k = Len(n) \/ isalpha(n[k + 1])

FollowedByDigits(n, r) ==
    /\ FollowEnd(n, r[2]) > r[2]
    /\ \A p \in r[2] + 1..FollowEnd(n, r[2]) : n[p] \in Digits

FollowedBySignedDigits(n, r) ==
    /\ FollowEnd(n, r[2]) > r[2] + 1
    /\ n[r[2] + 1] = "-"
    /\ \A p \in r[2] + 2..FollowEnd(n, r[2]) : n[p] \in Digits

\* The value, in base ten, of the digits at positions from..to of the name.
DigitsValue(n, from, to) ==
    SumOver(from..to,
            [p \in from..to |-> DigitValue(n[p]) * Pow10(to - p)])

CountOf(n, r) == DigitsValue(n, r[2] + 1, FollowEnd(n, r[2]))

UnitOf(n, r) == SubSeq(n, r[1], r[2])

\* The totals the units of a name add up to.
ExpectedTotals(n) ==
    LET K == KnownRuns(n)
        Sum(field) ==
            SumOver(K, [r \in K |->
                          CountOf(n, r) * building_blocks[UnitOf(n, r)][field]])
    IN  [mass |-> Sum("mass"),
         number_carbons |-> Sum("carbons"),
         number_hydrogens |-> Sum("hydrogens"),
         number_nitrogens |-> Sum("nitrogens"),
         number_oxygens |-> Sum("oxygens"),
         number_sulfurs |-> Sum("sulfurs"),
         number_sialic_acids |->
             SumOver(K, [r \in K |-> IF UnitOf(n, r) = Sia
                                     THEN CountOf(n, r) ELSE 0]),
         total_number_elements |-> 0,
         total_number_units |-> SumOver(K, [r \in K |-> CountOf(n, r)])]

Determined == pc = "determine"

(***************************************************************************)
(* C5.  For a name of letters and digits in which every letter run that    *)
(* is a building-block key is followed by a digit run,                     *)
(* determine_total_number_of_elements ends without an error and the        *)
(* totals are, field by field, the sum over those runs of count x the      *)
(* block's value, units and sialic acids ('S') included; a letter run      *)
(* that is no building block adds nothing and raises nothing.              *)
(***************************************************************************)
C5_Accumulation ==
    ( /\ Determined
      /\ \A i \in 1..Len(name) : isalpha(name[i]) \/ name[i] \in Digits
      /\ \A r \in KnownRuns(name) : FollowedByDigits(name, r) )
    => /\ err = "none"
       /\ composition = ExpectedTotals(name)

C5_Witness ==
    /\ Determined
    /\ err = "none"
    /\ composition.number_sialic_acids > 1
    /\ composition.total_number_units > composition.number_sialic_acids

C4_Permethylation ==
    ( /\ pc = "attach"
      /\ Per \in Range(mass_modifiers)
      /\ \A r \in KnownRuns(name) : FollowedByDigits(name, r) ) =>
        LET before == IndependentPass(
                          ExpectedTotals(name),
                          total_modifiers(mass_modifiers, charge_carrier))
            sites == before.number_oxygens
                     - (2 * before.total_number_units - 2) - 1
                     - before.number_sialic_acids
            b == building_blocks[Per]
        IN  /\ err = "none"
            /\ composition.number_carbons
                   = before.number_carbons + sites * b.carbons
            /\ composition.number_hydrogens
                   = before.number_hydrogens + 2 * sites * b.hydrogens
            /\ composition.mass = before.mass + sites * b.mass
            /\ composition.number_nitrogens = before.number_nitrogens
            /\ composition.number_oxygens = before.number_oxygens
            /\ composition.number_sulfurs = before.number_sulfurs

(***************************************************************************)
(* Vocabulary of the properties of the isotopic pattern.                   *)
(***************************************************************************)
PatternDone == pc = "pattern"

Fractions(s) == [i \in 1..Len(s) |-> s[i].fraction]

SmallestFraction(s) ==
    CHOOSE f \in Range(Fractions(s)) : \A g \in Range(Fractions(s)) : f <= g

CountAbove(s, f) == Cardinality({i \in 1..Len(s) : s[i].fraction > f})

Occurrences(s, x) == Cardinality({i \in 1..Len(s) : s[i] = x})

\* `kept` is what a prefix of `clusters`, taken by descending fraction, holds.
IsRankedPrefix(kept, clusters) ==
    /\ \A x \in Range(kept) : Occurrences(kept, x) <= Occurrences(clusters, x)
    /\ kept # <<>> =>
           CountAbove(kept, SmallestFraction(kept))
               = CountAbove(clusters, SmallestFraction(kept))

\* The exact masses differ by at least eps: (b - a) >= eps, b after a.
ApartBy(a, b, eps) ==
    b.exact_mass.num * a.exact_mass.den - a.exact_mass.num * b.exact_mass.den
        >= eps * a.exact_mass.den * b.exact_mass.den

(***************************************************************************)
(* C2 as claimed.  The retained clusters are a prefix of the clusters by   *)
(* descending probability whose sum exceeds min_total_contribution, and    *)
(* without the last of them the sum is at most min_total_contribution.     *)
(***************************************************************************)
C2_AsClaimed ==
    PatternDone =>
        /\ IsRankedPrefix(isotopes, intermediate_results)
        /\ SumSeq(Fractions(isotopes)) > min_total_contribution
        /\ SumSeq(Fractions(isotopes)) - SmallestFraction(isotopes)
               <= min_total_contribution

(***************************************************************************)
(* C2 as amended.  When the probabilities of all clusters sum to more      *)
(* than min_total_contribution, the retained clusters are the smallest     *)
(* non-empty prefix by descending probability whose sum exceeds it: the    *)
(* sum is above it and, min_total_contribution being at least 0, the sum   *)
(* without the last is not.  Otherwise every cluster is retained, and      *)
(* their sum is at most min_total_contribution.                            *)
(***************************************************************************)
C2_Truncation ==
    PatternDone =>
        /\ IsRankedPrefix(isotopes, intermediate_results)
        /\ isotopes # <<>>
        /\ IF SumSeq(Fractions(intermediate_results)) > min_total_contribution
           THEN /\ SumSeq(Fractions(isotopes)) > min_total_contribution
                /\ min_total_contribution >= 0 =>
                       SumSeq(Fractions(isotopes)) - SmallestFraction(isotopes)
                           <= min_total_contribution
           ELSE Len(isotopes) = Len(intermediate_results)

C2_Witness ==
    /\ PatternDone
    /\ Len(isotopes) > 1
    /\ Len(isotopes) < Len(intermediate_results)
    /\ SumSeq(Fractions(isotopes)) > min_total_contribution

(***************************************************************************)
(* C3 as claimed.  After the calculation on a fresh analyte with           *)
(* epsilon > 0 the isotopes are strictly ascending in exact mass and no    *)
(* two of them are closer than epsilon.                                    *)
(***************************************************************************)
C3_AsClaimed ==
    (PatternDone /\ epsilon > 0) =>
        \A i, j \in 1..Len(isotopes) :
            i < j => /\ MassLess(isotopes[i], isotopes[j])
                     /\ ApartBy(isotopes[i], isotopes[j], epsilon)

(***************************************************************************)
(* C3 as amended.  After the calculation on a fresh analyte with           *)
(* epsilon > 0 the isotopes are strictly ascending in exact mass (two of   *)
(* them may be closer than epsilon).                                       *)
(***************************************************************************)
C3_Ascending ==
    (PatternDone /\ epsilon > 0) =>
        \A i, j \in 1..Len(isotopes) :
            i < j => MassLess(isotopes[i], isotopes[j])

C3_Witness ==
    /\ PatternDone
    /\ epsilon > 0
    /\ Len(isotopes) = 2
    /\ Len(intermediate_results) < Len(combination)
    /\ ~ApartBy(isotopes[1], isotopes[2], epsilon)

(***************************************************************************)
(* C8.  With epsilon <= 0 the merge makes one cluster of every             *)
(* combination point, with the point's mass and probability.               *)
(***************************************************************************)
C8_NoMerge ==
    (PatternDone /\ epsilon <= 0) =>
        /\ Len(intermediate_results) = Len(combination)
        /\ \A i \in 1..Len(intermediate_results) :
               LET c == intermediate_results[i] IN
               /\ c.fraction = combination[i][2]
               /\ c.exact_mass.num
                      = (composition.mass + combination[i][1]) * c.exact_mass.den

(***************************************************************************)
(* C9.  The merge partitions the combination list: the probabilities of    *)
(* the clusters sum to the probabilities of the combination points.        *)
(***************************************************************************)
C9_Partition ==
    PatternDone =>
        SumSeq(Fractions(intermediate_results))
            = SumSeq([i \in 1..Len(combination) |-> combination[i][2]])

(***************************************************************************)
(* C10.  calculate_isotopes is idempotent: whenever a call has completed,  *)
(* the totals are those of the name and the modifiers, and the isotopes    *)
(* are the retained clusters of one calculation, ascending by mass.        *)
(***************************************************************************)
C10_Idempotent ==
    PatternDone =>
        /\ composition
               = IndependentPass(ExpectedTotals(name),
                                 total_modifiers(mass_modifiers, charge_carrier))
        /\ Len(isotopes)
               = Len(Retained(intermediate_results, min_total_contribution))
        /\ \A x \in Range(isotopes) :
               Occurrences(isotopes, x) <= Occurrences(intermediate_results, x)
        /\ \A i \in 1..Len(isotopes) - 1 :
               MassLeq(isotopes[i], isotopes[i + 1])

(***************************************************************************)
(* Vocabulary of the properties of the window.                             *)
(***************************************************************************)
\* The last isotope among those of the greatest fraction.
Dominant ==
    CHOOSE i \in 1..Len(isotopes) :
        /\ \A j \in 1..Len(isotopes) : isotopes[j].fraction <= isotopes[i].fraction
        /\ \A j \in i + 1..Len(isotopes) :
               isotopes[j].fraction < isotopes[i].fraction

\* reference - window <= m <= reference + window, reference = num/den.
InWindow(m, reference, window) ==
    /\ reference.num - window * reference.den <= m * reference.den
    /\ m * reference.den <= reference.num + window * reference.den

BelowWindow(m, reference, window) ==
    m * reference.den < reference.num - window * reference.den

(***************************************************************************)
(* C1.  After inherit_data_subset on a non-empty ascending spectrum and a  *)
(* non-empty isotope sequence, data_subset is the slice of the spectrum    *)
(* from the first point whose mass is at least reference - mass_window     *)
(* up to, not including, the first point whose mass is above reference +   *)
(* mass_window, which is exactly the points inside the window, in order;   *)
(* reference is the exact mass of an isotope of the greatest fraction.     *)
(***************************************************************************)
C1_Window ==
    (pc = "inherit" /\ err = "none") =>
        \E i \in 1..Len(isotopes) :
            /\ \A j \in 1..Len(isotopes) :
                   isotopes[j].fraction <= isotopes[i].fraction
            /\ LET reference == isotopes[i].exact_mass
                   Inside(point) == InWindow(point[1], reference, mass_window)
                   left == Cardinality({k \in 1..Len(spectrum) :
                               BelowWindow(spectrum[k][1], reference,
                                           mass_window)})
                   right == left + Cardinality({k \in 1..Len(spectrum) :
                               Inside(spectrum[k])})
               IN  /\ data_subset.none = FALSE
                   /\ data_subset.data = SelectSeq(spectrum, Inside)
                   /\ data_subset.data = SubSeq(spectrum, left + 1, right)

C1_Witness ==
    /\ pc = "inherit"
    /\ err = "none"
    /\ mass_window > 0
    /\ Len(data_subset.data) = 2
    /\ Len(spectrum) = 3
    /\ InWindow(spectrum[2][1], isotopes[Dominant].exact_mass, mass_window)
    /\ spectrum[3][1] * isotopes[Dominant].exact_mass.den
           = isotopes[Dominant].exact_mass.num
             + mass_window * isotopes[Dominant].exact_mass.den

(***************************************************************************)
(* C7.  With a non-empty isotope sequence, inherit_data_subset ends in an  *)
(* error exactly when the spectrum has no point; on the error data_subset  *)
(* keeps its value, and on a spectrum with points of which none is inside  *)
(* the window it ends without error and data_subset is the empty list.     *)
(***************************************************************************)
C7_EmptySpectrum ==
    [][ (pc' = "inherit" /\ isotopes # <<>>) =>
            /\ err' # "none" <=> spectrum = <<>>
            /\ err' # "none" => data_subset' = data_subset
            /\ ( /\ spectrum # <<>>
                 /\ \A k \in 1..Len(spectrum) :
                        ~InWindow(spectrum[k][1], isotopes[Dominant].exact_mass,
                                  mass_window) )
               => /\ err' = "none"
                  /\ data_subset' = SubsetOf(<<>>) ]_vars

C7_Witness ==
    /\ pc = "inherit"
    /\ isotopes # <<>>
    /\ spectrum = <<>>
    /\ err = "ValueError"
    /\ data_subset = NoSubset

====
